---- MODULE Spec2Model ----
(***************************************************************************)
(* Model of the Open/R netlink system handler (NetlinkSystemHandler) over  *)
(* the in-memory netlink socket (FakeNetlinkProtocolSocket).               *)
(*                                                                         *)
(* State: the socket's link table, per-interface address lists and route   *)
(* tables, plus a record of the last call made and what it returned.       *)
(* Two sync calls running side by side keep their progress in sync; the    *)
(* message frames (NetlinkMessage) and the table of the outstanding ones   *)
(* are the state of the request/response engine.                           *)
(***************************************************************************)
EXTENDS Integers, Sequences, FiniteSets, TLC

VARIABLES links, ifAddrs, unicastRoutes, mplsRoutes, call, rcall,
          sync,                      \* two sync calls running side by side
          nextSeq, frames, table,    \* the request/response engine
          received, notified, fault

\* the in-memory socket and the record of the last call on it
socketVars == <<links, ifAddrs, unicastRoutes, mplsRoutes, call, rcall>>

\* the message frames and the table of the outstanding ones
engineVars == <<nextSeq, frames, table, received, notified, fault>>

vars == <<links, ifAddrs, unicastRoutes, mplsRoutes, call, rcall,
          sync, nextSeq, frames, table, received, notified, fault>>

----------------------------------------------------------------------------
(* Platform constants used by the code.                                    *)
AF_INET == 2
AF_INET6 == 10
AF_MPLS == 28
RT_SCOPE_UNIVERSE == 0
RT_SCOPE_LINK == 253
RT_SCOPE_HOST == 254
ESRCH == 3
ENXIO == 6
EEXIST == 17
EINVAL == 22
EADDRNOTAVAIL == 99

(* Bounds of the exploration.                                              *)
MaxBatch == 2      \* longest address vector passed to a handler call
MaxRequests == 2   \* requests sent over the one socket
MaxDatagrams == 4  \* datagrams the read loop takes from the kernel

----------------------------------------------------------------------------
(* Values the calls are made with.                                         *)

\* IP addresses are byte sequences: 4 bytes for IPv4, 16 for IPv6.
V4Global == <<192, 168, 1, 1>>
V4Loopback == <<127, 0, 0, 1>>
V6LinkLocal == <<254, 128, 0, 0, 0, 0, 0, 0, 0, 0, 0, 0, 0, 0, 0, 1>>

\* folly::CIDRNetwork values, <<address, prefix length>>, and the interface
\* they are configured on: eth0 (ifIndex 1) is given the global and the
\* link-local address, lo (ifIndex 2) the loopback and the global one.
NetPool(i) ==
  IF i = 1 THEN {<<V4Global, 24>>, <<V6LinkLocal, 64>>}
  ELSE {<<V4Loopback, 8>>, <<V4Global, 24>>}

\* An IfAddress built without a prefix (std::optional without a value).
NoPrefix == <<<<>>, 0>>

IfIndexes == {1, 2}
IfNameOf(i) == IF i = 1 THEN "eth0" ELSE "lo"
IfNames == {"eth0", "lo", "eth9"}      \* "eth9" names no link
IfIndexOf(n) == IF n = "lo" THEN 2 ELSE 1
Families == {0, AF_INET, AF_INET6}
Scopes == {RT_SCOPE_UNIVERSE, RT_SCOPE_LINK, RT_SCOPE_HOST}

Abs(x) == IF x < 0 THEN -x ELSE x

RECURSIVE SeqsUpTo(_, _)
SeqsUpTo(S, n) ==
  IF n = 0 THEN {<<>>}
  ELSE LET shorter == SeqsUpTo(S, n - 1)
       IN shorter \cup {Append(s, x) : s \in {t \in shorter : Len(t) = n - 1}, x \in S}

Range(s) == {s[i] : i \in 1..Len(s)}

----------------------------------------------------------------------------
(* Address helpers.                                                        *)

\* folly::IPAddress::family()
FamilyOf(ip) == IF Len(ip) = 4 THEN AF_INET ELSE AF_INET6

\* folly::IPAddress::isLoopback(): 127.0.0.0/8 or ::1
isLoopback(ip) ==
  IF Len(ip) = 4 THEN ip[1] = 127
  ELSE /\ \A i \in 1..15 : ip[i] = 0
       /\ ip[16] = 1

\* folly::IPAddress::isLinkLocal(): 169.254.0.0/16 or fe80::/10
isLinkLocal(ip) ==
  IF Len(ip) = 4 THEN ip[1] = 169 /\ ip[2] = 254
  ELSE ip[1] = 254 /\ (ip[2] \div 64) = 2

\* toIpPrefix: CIDRNetwork -> thrift::IpPrefix
toIpPrefix(net) ==
  [prefixAddress |-> [addr |-> net[1]], prefixLength |-> net[2]]

\* toIPNetwork(prefix, false): thrift::IpPrefix -> CIDRNetwork, mask not applied
toIPNetwork(prefix) == <<prefix.prefixAddress.addr, prefix.prefixLength>>

PrefixPool(ifName) == {toIpPrefix(n) : n \in NetPool(IfIndexOf(ifName))}

\* IfAddressBuilder ... build(): the family is the family of the prefix
IfAddressBuild(ifIndex, net, scope) ==
  [ifIndex |-> ifIndex, prefix |-> net, scope |-> scope,
   family |-> IF net = NoPrefix THEN 0 ELSE FamilyOf(net[1])]

\* ScopeOfNetwork without the link-local case
ScopeOfNetwork_NoLinkLocal(net) ==
  IF isLoopback(net[1]) THEN RT_SCOPE_HOST ELSE RT_SCOPE_UNIVERSE

\* Scope the handler gives an address it adds or removes
ScopeOfNetwork(net) ==
  IF isLoopback(net[1]) THEN RT_SCOPE_HOST
  ELSE IF isLinkLocal(net[1]) THEN RT_SCOPE_LINK
  ELSE RT_SCOPE_UNIVERSE

----------------------------------------------------------------------------
(* FakeNetlinkProtocolSocket: links_, ifAddrs_ (ordered maps on ifIndex).  *)

RECURSIVE SortedSeq(_)
SortedSeq(S) ==
  IF S = {} THEN <<>>
  ELSE LET m == CHOOSE x \in S : \A y \in S : x <= y
       IN <<m>> \o SortedSeq(S \ {m})

RECURSIVE Concat(_, _)
Concat(f, keys) ==
  IF keys = <<>> THEN <<>> ELSE f[Head(keys)] \o Concat(f, Tail(keys))

RemoveAt(s, i) == [j \in 1..(Len(s) - 1) |-> IF j < i THEN s[j] ELSE s[j + 1]]

HasPrefix(list, net) == \E i \in 1..Len(list) : list[i].prefix = net

\* FakeAddIfAddress that makes the address list of an unknown ifIndex
FakeAddIfAddress_AutoCreate(addrs, addr) ==
  LET list == IF addr.ifIndex \in DOMAIN addrs THEN addrs[addr.ifIndex] ELSE <<>>
  IN IF addr.prefix = NoPrefix
     THEN [ret |-> -ENXIO, ifAddrs |-> addrs]
     ELSE IF HasPrefix(list, addr.prefix)
     THEN [ret |-> -EEXIST, ifAddrs |-> addrs]
     ELSE [ret |-> 0,
           ifAddrs |-> [i \in DOMAIN addrs \cup {addr.ifIndex} |->
                          IF i = addr.ifIndex THEN Append(list, addr)
                          ELSE addrs[i]]]

\* FakeAddIfAddress that takes a held prefix again under another scope
FakeAddIfAddress_PerScope(addrs, addr) ==
  IF addr.ifIndex \notin DOMAIN addrs \/ addr.prefix = NoPrefix
  THEN [ret |-> -ENXIO, ifAddrs |-> addrs]
  ELSE IF \E a \in Range(addrs[addr.ifIndex]) :
            a.prefix = addr.prefix /\ a.scope = addr.scope
  THEN [ret |-> -EEXIST, ifAddrs |-> addrs]
  ELSE [ret |-> 0,
        ifAddrs |-> [addrs EXCEPT ![addr.ifIndex] = Append(@, addr)]]

FakeAddIfAddress(addrs, addr) ==
  IF addr.ifIndex \notin DOMAIN addrs \/ addr.prefix = NoPrefix
  THEN [ret |-> -ENXIO, ifAddrs |-> addrs]
  ELSE IF HasPrefix(addrs[addr.ifIndex], addr.prefix)
  THEN [ret |-> -EEXIST, ifAddrs |-> addrs]
  ELSE [ret |-> 0,
        ifAddrs |-> [addrs EXCEPT ![addr.ifIndex] = Append(@, addr)]]

FakeDeleteIfAddress(addrs, addr) ==
  IF addr.ifIndex \notin DOMAIN addrs \/ addr.prefix = NoPrefix
  THEN [ret |-> -ENXIO, ifAddrs |-> addrs]
  ELSE IF HasPrefix(addrs[addr.ifIndex], addr.prefix)
  THEN LET list == addrs[addr.ifIndex]
           i == CHOOSE k \in 1..Len(list) :
                  /\ list[k].prefix = addr.prefix
                  /\ \A j \in 1..(k - 1) : list[j].prefix # addr.prefix
       IN [ret |-> 0,
           ifAddrs |-> [addrs EXCEPT ![addr.ifIndex] = RemoveAt(list, i)]]
  ELSE [ret |-> -EADDRNOTAVAIL, ifAddrs |-> addrs]

FakeGetAllIfAddresses(addrs) == Concat(addrs, SortedSeq(DOMAIN addrs))

FakeGetAllLinks(lnks) ==
  LET keys == SortedSeq(DOMAIN lnks)
  IN [i \in 1..Len(keys) |-> lnks[keys[i]]]

----------------------------------------------------------------------------
(* The socket as the handler sees it (nlSock_).  With the in-memory socket *)
(* a request returns what the fake computes; a kernel-backed socket may    *)
(* also refuse a request with another errno and change nothing.            *)

KernelReject(addrs) == [ret |-> -EINVAL, ifAddrs |-> addrs]

SockRequest(addrs, r, rejected) ==
  IF rejected THEN KernelReject(addrs)
  ELSE IF r.req = "add" THEN FakeAddIfAddress(addrs, r.addr)
  ELSE FakeDeleteIfAddress(addrs, r.addr)

\* The sets of requests (by position) the socket may refuse: none with the
\* in-memory socket, any with a kernel-backed one.
Rejections(reqs, kernel) ==
  IF kernel THEN SUBSET (1..Len(reqs)) ELSE {{}}

\* IssueAll that stops issuing at the first request refused outright
RECURSIVE IssueAll_StopAtFailure(_, _, _, _)
IssueAll_StopAtFailure(reqs, i, addrs, rejected) ==
  IF i > Len(reqs) THEN [ifAddrs |-> addrs, issued |-> <<>>]
  ELSE LET r == SockRequest(addrs, reqs[i], i \in rejected)
           rest == IF i \in rejected
                   THEN [ifAddrs |-> r.ifAddrs, issued |-> <<>>]
                   ELSE IssueAll_StopAtFailure(reqs, i + 1, r.ifAddrs, rejected)
       IN [ifAddrs |-> rest.ifAddrs,
           issued |-> <<[req |-> reqs[i].req, addr |-> reqs[i].addr,
                         ret |-> r.ret]>> \o rest.issued]

\* Requests are issued one after the other, each on the state the previous
\* one left; every request of the vector is issued before any result is read.
RECURSIVE IssueAll(_, _, _, _)
IssueAll(reqs, i, addrs, rejected) ==
  IF i > Len(reqs) THEN [ifAddrs |-> addrs, issued |-> <<>>]
  ELSE LET r == SockRequest(addrs, reqs[i], i \in rejected)
           rest == IssueAll(reqs, i + 1, r.ifAddrs, rejected)
       IN [ifAddrs |-> rest.ifAddrs,
           issued |-> <<[req |-> reqs[i].req, addr |-> reqs[i].addr,
                         ret |-> r.ret]>> \o rest.issued]

----------------------------------------------------------------------------
(* NetlinkSystemHandler.                                                   *)

Ok == [kind |-> "ok", code |-> 0]
BadOptionalAccess == [kind |-> "bad_optional_access", code |-> 0]
OutOfRange == [kind |-> "out_of_range", code |-> 0]
NlException(code) == [kind |-> "NlException", code |-> code]

\* getIfIndex that answers index 0 for a name no link has
getIfIndex_ZeroWhenMissing(lnks, ifName) ==
  LET all == FakeGetAllLinks(lnks)
      hits == {i \in 1..Len(all) : all[i].ifName = ifName}
  IN IF hits = {} THEN <<0>>
     ELSE <<all[CHOOSE i \in hits : \A j \in hits : i <= j].ifIndex>>

\* std::optional<int>: <<>> is nullopt, <<i>> holds i
getIfIndex(lnks, ifName) ==
  LET all == FakeGetAllLinks(lnks)
      hits == {i \in 1..Len(all) : all[i].ifName = ifName}
  IN IF hits = {} THEN <<>>
     ELSE <<all[CHOOSE i \in hits : \A j \in hits : i <= j].ifIndex>>

\* CollectStatus with EEXIST taken for a failure
CollectStatus_EexistFails(issued) ==
  LET bad == {i \in 1..Len(issued) :
                LET ret == Abs(issued[i].ret)
                IN ret # 0 /\ ret # EADDRNOTAVAIL}
  IN IF bad = {} THEN Ok
     ELSE NlException(Abs(issued[CHOOSE i \in bad : \A j \in bad : i <= j].ret))

\* the deferValue continuation over the collected return values
\* CollectStatus that takes EADDRNOTAVAIL for a failure
CollectStatus_NotAvailFails(issued) ==
  LET bad == {i \in 1..Len(issued) :
                LET ret == Abs(issued[i].ret)
                IN ret # 0 /\ ret # EEXIST}
  IN IF bad = {} THEN Ok
     ELSE NlException(Abs(issued[CHOOSE i \in bad : \A j \in bad : i <= j].ret))

CollectStatus(issued) ==
  LET bad == {i \in 1..Len(issued) :
                LET ret == Abs(issued[i].ret)
                IN ret # 0 /\ ret # EEXIST /\ ret # EADDRNOTAVAIL}
  IN IF bad = {} THEN Ok
     ELSE NlException(Abs(issued[CHOOSE i \in bad : \A j \in bad : i <= j].ret))

\* the request vector of addRemoveIfAddresses
AddRemoveRequests(isAdd, ifIndex, addrs) ==
  [i \in 1..Len(addrs) |->
     LET network == toIPNetwork(addrs[i])
     IN [req |-> IF isAdd THEN "add" ELSE "del",
         addr |-> IfAddressBuild(ifIndex, network, ScopeOfNetwork(network))]]

\* FilterAddrs with scope 0 taken for "any scope", as family 0 is
RECURSIVE FilterAddrs_ScopeZeroIsAny(_, _, _, _)
FilterAddrs_ScopeZeroIsAny(nlAddrs, ifIndex, family, scope) ==
  IF nlAddrs = <<>> THEN <<>>
  ELSE LET nlAddr == Head(nlAddrs)
           rest == FilterAddrs_ScopeZeroIsAny(Tail(nlAddrs), ifIndex, family, scope)
       IN IF nlAddr.ifIndex # ifIndex THEN rest
          ELSE IF family # 0 /\ nlAddr.family # family THEN rest
          ELSE IF scope # 0 /\ nlAddr.scope # scope THEN rest
          ELSE <<toIpPrefix(nlAddr.prefix)>> \o rest

\* the filter of semifuture_getIfaceAddresses over getAllIfAddresses()
RECURSIVE FilterAddrs(_, _, _, _)
FilterAddrs(nlAddrs, ifIndex, family, scope) ==
  IF nlAddrs = <<>> THEN <<>>
  ELSE LET nlAddr == Head(nlAddrs)
           rest == FilterAddrs(Tail(nlAddrs), ifIndex, family, scope)
       IN IF nlAddr.ifIndex # ifIndex THEN rest
          ELSE IF family # 0 /\ nlAddr.family # family THEN rest
          ELSE IF nlAddr.scope # scope THEN rest
          ELSE <<toIpPrefix(nlAddr.prefix)>> \o rest

getIfaceAddresses(addrs, ifIndex, family, scope) ==
  FilterAddrs(FakeGetAllIfAddresses(addrs), ifIndex, family, scope)

\* SyncRequests without the deletion of the old addresses
SyncRequests_KeepOld(ifIndex, scope, oldAddrs, newAddrs) ==
  LET toAdd == SelectSeq(newAddrs, LAMBDA a : a \notin Range(oldAddrs))
  IN [i \in 1..Len(toAdd) |->
        [req |-> "add",
         addr |-> IfAddressBuild(ifIndex, toIPNetwork(toAdd[i]), scope)]]

\* SyncRequests without the skip of the addresses already held
SyncRequests_AddAll(ifIndex, scope, oldAddrs, newAddrs) ==
  LET toDel == SelectSeq(oldAddrs, LAMBDA a : a \notin Range(newAddrs))
      Req(kind, a) ==
        [req |-> kind, addr |-> IfAddressBuild(ifIndex, toIPNetwork(a), scope)]
  IN [i \in 1..Len(newAddrs) |-> Req("add", newAddrs[i])]
     \o [i \in 1..Len(toDel) |-> Req("del", toDel[i])]

\* the request vector of semifuture_syncIfaceAddresses
SyncRequests(ifIndex, scope, oldAddrs, newAddrs) ==
  LET toAdd == SelectSeq(newAddrs, LAMBDA a : a \notin Range(oldAddrs))
      toDel == SelectSeq(oldAddrs, LAMBDA a : a \notin Range(newAddrs))
      Req(kind, a) ==
        [req |-> kind, addr |-> IfAddressBuild(ifIndex, toIPNetwork(a), scope)]
  IN [i \in 1..Len(toAdd) |-> Req("add", toAdd[i])]
     \o [i \in 1..Len(toDel) |-> Req("del", toDel[i])]

\* the Link list of semifuture_getAllLinks: one entry per socket link, the
\* networks appended in the order of getAllIfAddresses()
\* NetworksOf without the lookup of the address's own link
NetworksOf_EveryAddress(nlAddrs, ifIndex) ==
  [i \in 1..Len(nlAddrs) |-> toIpPrefix(nlAddrs[i].prefix)]

NetworksOf(nlAddrs, ifIndex) ==
  LET mine == SelectSeq(nlAddrs, LAMBDA a : a.ifIndex = ifIndex)
  IN [i \in 1..Len(mine) |-> toIpPrefix(mine[i].prefix)]

ThriftLinks(lnks, addrs) ==
  LET nlAddrs == FakeGetAllIfAddresses(addrs)
  IN [i \in DOMAIN lnks |->
        [ifName |-> lnks[i].ifName, ifIndex |-> lnks[i].ifIndex,
         isUp |-> lnks[i].isUp, networks |-> NetworksOf(nlAddrs, i)]]

----------------------------------------------------------------------------
(* The record of the last call.                                            *)

NoAddr == IfAddressBuild(0, NoPrefix, 0)

\* utils::createLink
createLink(ifIndex, ifName, isUp) ==
  [ifIndex |-> ifIndex, ifName |-> ifName, isUp |-> isUp]

NoLink == createLink(0, "", FALSE)

BlankCall ==
  [op |-> "none", ifName |-> "", family |-> 0, scope |-> 0, addrs |-> <<>>,
   arg |-> NoAddr, link |-> NoLink, ret |-> 0, status |-> Ok, result |-> <<>>,
   linksResult |-> <<>>, issued |-> <<>>]

\* Routes the calls are made with.  A unicast route has a destination and
\* no label, an MPLS route a label and no destination.
NoDest == <<<<>>, 0>>
NoLabel == <<>>
Dests == {<<<<10, 0, 0, 0>>, 8>>, <<<<192, 168, 0, 0>>, 16>>}
Labels == {100, 200}
ProtocolIds == {98, 99}
RTN_UNICAST == 1
RTN_MULTICAST == 5
RouteShapes == {[type |-> RTN_UNICAST, nextHops |-> {"nh1"}],
                [type |-> RTN_MULTICAST, nextHops |-> {"nh2", "nh3"}]}

RouteBuild(proto, family, dest, label, shape) ==
  [protocolId |-> proto, family |-> family, destination |-> dest,
   mplsLabel |-> label, type |-> shape.type, nextHops |-> shape.nextHops]

RouteInputs ==
  {RouteBuild(p, AF_INET, d, NoLabel, sh) :
     p \in ProtocolIds, d \in Dests, sh \in RouteShapes}
  \cup {RouteBuild(p, AF_MPLS, NoDest, <<l>>, sh) :
     p \in ProtocolIds, l \in Labels, sh \in RouteShapes}

\* a getRoutes filter: only protocolId, family and type are read
FilterInputs ==
  {RouteBuild(p, f, NoDest, NoLabel, [type |-> t, nextHops |-> {}]) :
     p \in ProtocolIds \cup {0}, f \in {0, AF_INET, AF_MPLS},
     t \in {0, RTN_UNICAST, RTN_MULTICAST}}

NoRouteCall ==
  [op |-> "none", route |-> RouteBuild(0, 0, NoDest, NoLabel,
                                       [type |-> 0, nextHops |-> {}]),
   ret |-> 0, result |-> <<>>, replaced |-> <<>>]

\* The caller makes one call at a time: it reads the outcome of a call
\* (Return) before it makes the next one.
Idle == call = BlankCall /\ rcall = NoRouteCall

Return ==
  /\ ~Idle
  /\ call' = BlankCall
  /\ rcall' = NoRouteCall
  /\ UNCHANGED <<links, ifAddrs, unicastRoutes, mplsRoutes, sync, engineVars>>

EmptyMap == [x \in {} |-> 0]

\* no pair of sync calls is running
NoSync == [running |-> FALSE]

\* no frame has faulted
NoFault == [seq |-> 0, kind |-> "none"]

Init ==
  /\ links = EmptyMap
  /\ ifAddrs = EmptyMap
  /\ unicastRoutes = EmptyMap
  /\ mplsRoutes = EmptyMap
  /\ call = BlankCall
  /\ rcall = NoRouteCall
  /\ sync = NoSync
  /\ nextSeq = 1
  /\ frames = <<>>
  /\ table = {}
  /\ received = 0
  /\ notified = 0
  /\ fault = NoFault

----------------------------------------------------------------------------
(* Socket calls made directly (the test harness sets the socket up).       *)

\* addLink that gives a new ifIndex no address list
addLink_NoAddressList(link) ==
  /\ Idle
  /\ links' = IF link.ifIndex \in DOMAIN links THEN links
              ELSE [i \in DOMAIN links \cup {link.ifIndex} |->
                      IF i = link.ifIndex THEN link ELSE links[i]]
  /\ call' = [BlankCall EXCEPT
                !.op = "addLink", !.arg.ifIndex = link.ifIndex, !.link = link,
                !.ret = IF link.ifIndex \in DOMAIN links THEN -EEXIST ELSE 0]
  /\ UNCHANGED <<ifAddrs, unicastRoutes, mplsRoutes, rcall, sync, engineVars>>

\* addLink that stores the link over the one the ifIndex already has
addLink_Replace(link) ==
  /\ Idle
  /\ links' = [i \in DOMAIN links \cup {link.ifIndex} |->
                 IF i = link.ifIndex THEN link ELSE links[i]]
  /\ ifAddrs' = [i \in DOMAIN ifAddrs \cup {link.ifIndex} |->
                   IF i \in DOMAIN ifAddrs THEN ifAddrs[i] ELSE <<>>]
  /\ call' = [BlankCall EXCEPT
                !.op = "addLink", !.arg.ifIndex = link.ifIndex, !.link = link,
                !.ret = IF link.ifIndex \in DOMAIN links THEN -EEXIST ELSE 0]
  /\ UNCHANGED <<unicastRoutes, mplsRoutes, rcall, sync, engineVars>>

addLink(link) ==
  /\ Idle
  /\ IF link.ifIndex \in DOMAIN links
     THEN /\ call' = [BlankCall EXCEPT !.op = "addLink", !.ret = -EEXIST,
                                       !.arg.ifIndex = link.ifIndex,
                                       !.link = link]
          /\ UNCHANGED <<links, ifAddrs>>
     ELSE /\ links' = [i \in DOMAIN links \cup {link.ifIndex} |->
                         IF i = link.ifIndex THEN link ELSE links[i]]
          /\ ifAddrs' = [i \in DOMAIN ifAddrs \cup {link.ifIndex} |->
                           IF i \in DOMAIN ifAddrs THEN ifAddrs[i] ELSE <<>>]
          /\ call' = [BlankCall EXCEPT !.op = "addLink", !.ret = 0,
                                       !.arg.ifIndex = link.ifIndex,
                                       !.link = link]
  /\ UNCHANGED <<unicastRoutes, mplsRoutes, rcall, sync, engineVars>>

addIfAddress(addr) ==
  LET r == FakeAddIfAddress(ifAddrs, addr)
  IN /\ Idle
     /\ ifAddrs' = r.ifAddrs
     /\ call' = [BlankCall EXCEPT !.op = "addIfAddress", !.arg = addr,
                                  !.ret = r.ret]
     /\ UNCHANGED <<links, unicastRoutes, mplsRoutes, rcall, sync, engineVars>>

deleteIfAddress(addr) ==
  LET r == FakeDeleteIfAddress(ifAddrs, addr)
  IN /\ Idle
     /\ ifAddrs' = r.ifAddrs
     /\ call' = [BlankCall EXCEPT !.op = "deleteIfAddress", !.arg = addr,
                                  !.ret = r.ret]
     /\ UNCHANGED <<links, unicastRoutes, mplsRoutes, rcall, sync, engineVars>>

----------------------------------------------------------------------------
(* Handler calls.                                                          *)

\* order is a permutation of the links: the result list is filled from an
\* unordered map, so any order of the entries may come out
semifuture_getAllLinks(order) ==
  /\ Idle
  /\ Len(order) = Cardinality(DOMAIN links)
  /\ Range(order) = DOMAIN links
  /\ IF \E i \in DOMAIN ifAddrs : i \notin DOMAIN links /\ ifAddrs[i] # <<>>
     THEN call' = [BlankCall EXCEPT !.op = "getAllLinks", !.status = OutOfRange]
     ELSE LET byIndex == ThriftLinks(links, ifAddrs)
          IN call' = [BlankCall EXCEPT
                        !.op = "getAllLinks",
                        !.linksResult = [k \in 1..Len(order) |-> byIndex[order[k]]]]
  /\ UNCHANGED <<links, ifAddrs, unicastRoutes, mplsRoutes, rcall, sync, engineVars>>

addRemoveIfAddresses(isAdd, ifName, addrs, kernel) ==
  LET ifIndex == getIfIndex(links, ifName)
      opName == IF isAdd THEN "addIfaceAddresses" ELSE "removeIfaceAddresses"
  IN /\ Idle
     /\ IF ifIndex = <<>>
        THEN /\ call' = [BlankCall EXCEPT !.op = opName, !.ifName = ifName,
                                          !.addrs = addrs,
                                          !.status = BadOptionalAccess]
             /\ UNCHANGED ifAddrs
        ELSE LET reqs == AddRemoveRequests(isAdd, ifIndex[1], addrs)
             IN \E rejected \in Rejections(reqs, kernel) :
                  LET done == IssueAll(reqs, 1, ifAddrs, rejected)
                  IN /\ ifAddrs' = done.ifAddrs
                     /\ call' = [BlankCall EXCEPT
                                   !.op = opName, !.ifName = ifName,
                                   !.addrs = addrs, !.issued = done.issued,
                                   !.status = CollectStatus(done.issued)]
     /\ UNCHANGED <<links, unicastRoutes, mplsRoutes, rcall, sync, engineVars>>

semifuture_addIfaceAddresses(ifName, addrs, kernel) ==
  addRemoveIfAddresses(TRUE, ifName, addrs, kernel)

semifuture_removeIfaceAddresses(ifName, addrs, kernel) ==
  addRemoveIfAddresses(FALSE, ifName, addrs, kernel)

semifuture_getIfaceAddresses(ifName, family, scope) ==
  LET ifIndex == getIfIndex(links, ifName)
      base == [BlankCall EXCEPT !.op = "getIfaceAddresses", !.ifName = ifName,
                                !.family = family, !.scope = scope]
  IN /\ Idle
     /\ IF ifIndex = <<>>
        THEN call' = [base EXCEPT !.status = BadOptionalAccess]
        ELSE call' = [base EXCEPT
                        !.result = getIfaceAddresses(ifAddrs, ifIndex[1],
                                                     family, scope)]
     /\ UNCHANGED <<links, ifAddrs, unicastRoutes, mplsRoutes, rcall, sync, engineVars>>

semifuture_syncIfaceAddresses(iface, family, scope, newAddrs, kernel) ==
  LET ifIndex == getIfIndex(links, iface)
      base == [BlankCall EXCEPT !.op = "syncIfaceAddresses", !.ifName = iface,
                                !.family = family, !.scope = scope,
                                !.addrs = newAddrs]
  IN /\ Idle
     /\ IF ifIndex = <<>>
        THEN /\ call' = [base EXCEPT !.status = BadOptionalAccess]
             /\ UNCHANGED ifAddrs
        ELSE LET oldAddrs == getIfaceAddresses(ifAddrs, ifIndex[1], family, scope)
                 reqs == SyncRequests(ifIndex[1], scope, oldAddrs, newAddrs)
             IN \E rejected \in Rejections(reqs, kernel) :
                  LET done == IssueAll(reqs, 1, ifAddrs, rejected)
                  IN /\ ifAddrs' = done.ifAddrs
                     /\ call' = [base EXCEPT
                                   !.issued = done.issued,
                                   !.status = CollectStatus(done.issued)]
     /\ UNCHANGED <<links, unicastRoutes, mplsRoutes, rcall, sync, engineVars>>

----------------------------------------------------------------------------
(* FakeNetlinkProtocolSocket: unicastRoutes_ and mplsRoutes_, each a map   *)
(* protocolId -> (key -> Route).                                           *)

\* m[k]: a reference to the value of k, an empty inner map when k is new
At(m, k) == IF k \in DOMAIN m THEN m[k] ELSE EmptyMap

\* Assign as an emplace: an existing entry is kept
Assign_KeepExisting(m, p, k, v) ==
  LET inner == At(m, p)
      inner2 == [x \in DOMAIN inner \cup {k} |->
                   IF x \in DOMAIN inner THEN inner[x] ELSE v]
  IN [q \in DOMAIN m \cup {p} |-> IF q = p THEN inner2 ELSE m[q]]

\* m[p][k] = v
Assign(m, p, k, v) ==
  LET inner == At(m, p)
      inner2 == [x \in DOMAIN inner \cup {k} |-> IF x = k THEN v ELSE inner[x]]
  IN [q \in DOMAIN m \cup {p} |-> IF q = p THEN inner2 ELSE m[q]]

\* Erase that counts an element even when the key was not there
Erase_CountsAbsent(m, p, k) ==
  LET inner == At(m, p)
      inner2 == [x \in DOMAIN inner \ {k} |-> inner[x]]
  IN [map |-> [q \in DOMAIN m \cup {p} |-> IF q = p THEN inner2 ELSE m[q]],
      cnt |-> 1]

\* m[p].erase(k): the map afterwards and the number of elements erased
Erase(m, p, k) ==
  LET inner == At(m, p)
      inner2 == [x \in DOMAIN inner \ {k} |-> inner[x]]
  IN [map |-> [q \in DOMAIN m \cup {p} |-> IF q = p THEN inner2 ELSE m[q]],
      cnt |-> IF k \in DOMAIN inner THEN 1 ELSE 0]

RECURSIVE SetToSeq(_)
SetToSeq(S) ==
  IF S = {} THEN <<>>
  ELSE LET x == CHOOSE y \in S : TRUE IN <<x>> \o SetToSeq(S \ {x})

\* every route of a two-level map, container order
RoutesOf(m) ==
  LET ps == SetToSeq(DOMAIN m)
      Inner(p) == LET ks == SetToSeq(DOMAIN m[p])
                  IN [i \in 1..Len(ks) |-> m[p][ks[i]]]
      lists == [i \in 1..Len(ps) |-> Inner(ps[i])]
  IN Concat(lists, [i \in 1..Len(ps) |-> i])

\* PassesFilter without the filter on the type
PassesFilter_NoType(filter, route) ==
  /\ ~(filter.protocolId # 0 /\ filter.protocolId # route.protocolId)
  /\ ~(filter.family # 0 /\ filter.family # route.family)

\* applyFilter of getRoutes
PassesFilter(filter, route) ==
  /\ ~(filter.protocolId # 0 /\ filter.protocolId # route.protocolId)
  /\ ~(filter.family # 0 /\ filter.family # route.family)
  /\ ~(filter.type # 0 /\ filter.type # route.type)

FakeGetRoutes(mpls, unicast, filter) ==
  SelectSeq(RoutesOf(mpls) \o RoutesOf(unicast),
             LAMBDA r : PassesFilter(filter, r))

\* isMplsRoute with every route taken for a unicast one
isMplsRoute_Never(route) == FALSE

\* the test on the family that picks the table
isMplsRoute(route) == route.family = AF_MPLS

\* the stored route a call on this route's key meets: <<>> when there is none
StoredAt(m, p, k) == IF k \in DOMAIN At(m, p) THEN <<m[p][k]>> ELSE <<>>

addRoute(route) ==
  LET proto == route.protocolId
  IN /\ Idle
     /\ IF isMplsRoute(route)
        THEN /\ mplsRoutes' = Assign(mplsRoutes, proto, route.mplsLabel[1], route)
             /\ UNCHANGED unicastRoutes
        ELSE /\ unicastRoutes' =
                  Assign(unicastRoutes, proto, route.destination, route)
             /\ UNCHANGED mplsRoutes
     /\ rcall' = [NoRouteCall EXCEPT
                    !.op = "addRoute", !.route = route, !.ret = 0,
                    !.replaced =
                       IF isMplsRoute(route)
                       THEN StoredAt(mplsRoutes, proto, route.mplsLabel[1])
                       ELSE StoredAt(unicastRoutes, proto, route.destination)]
     /\ UNCHANGED <<links, ifAddrs, call, sync, engineVars>>

deleteRoute(route) ==
  LET proto == route.protocolId
      erased == IF isMplsRoute(route)
                THEN Erase(mplsRoutes, proto, route.mplsLabel[1])
                ELSE Erase(unicastRoutes, proto, route.destination)
  IN /\ Idle
     /\ IF isMplsRoute(route)
        THEN mplsRoutes' = erased.map /\ UNCHANGED unicastRoutes
        ELSE unicastRoutes' = erased.map /\ UNCHANGED mplsRoutes
     /\ rcall' = [NoRouteCall EXCEPT !.op = "deleteRoute", !.route = route,
                                     !.ret = IF erased.cnt # 0 THEN 0 ELSE ESRCH]
     /\ UNCHANGED <<links, ifAddrs, call, sync, engineVars>>

getRoutes(filter) ==
  /\ Idle
  /\ rcall' = [NoRouteCall EXCEPT
                 !.op = "getRoutes", !.route = filter,
                 !.result = FakeGetRoutes(mplsRoutes, unicastRoutes, filter)]
  /\ UNCHANGED <<links, ifAddrs, unicastRoutes, mplsRoutes, call, sync, engineVars>>

----------------------------------------------------------------------------
LinkInputs == {[ifIndex |-> i, ifName |-> IfNameOf(i), isUp |-> (i = 1)] :
                 i \in IfIndexes}
AddrInputs ==
  UNION {{IfAddressBuild(i, n, s) : n \in NetPool(i) \cup {NoPrefix}, s \in Scopes} :
           i \in IfIndexes}
Batches(ifName) == SeqsUpTo(PrefixPool(ifName), MaxBatch)
Orders == SeqsUpTo(IfIndexes, Cardinality(IfIndexes))
HandlerNext(kernel) ==
  \/ \E link \in LinkInputs : addLink(link)
  \/ \E addr \in AddrInputs : addIfAddress(addr)
  \/ \E addr \in AddrInputs : deleteIfAddress(addr)
  \/ \E order \in Orders : semifuture_getAllLinks(order)
  \/ \E n \in IfNames : \E b \in Batches(n) :
       semifuture_addIfaceAddresses(n, b, kernel)
  \/ \E n \in IfNames : \E b \in Batches(n) :
       semifuture_removeIfaceAddresses(n, b, kernel)
  \/ \E n \in IfNames, f \in Families, s \in Scopes :
       semifuture_getIfaceAddresses(n, f, s)
  \/ \E n \in IfNames, f \in Families, s \in Scopes : \E b \in Batches(n) :
       semifuture_syncIfaceAddresses(n, f, s, b, kernel)
  \/ Return

Next == HandlerNext(FALSE)

Spec == Init /\ [][Next]_vars

NextKernel == HandlerNext(TRUE)

SpecKernel == Init /\ [][NextKernel]_vars

NextRoutes ==
  \/ \E route \in RouteInputs : addRoute(route)
  \/ \E route \in RouteInputs : deleteRoute(route)
  \/ \E filter \in FilterInputs : getRoutes(filter)
  \/ Return

SpecRoutes == Init /\ [][NextRoutes]_vars

\* The socket set up link by link and address by address: a link of either
\* running state for each ifIndex, every address under every scope.
LinkVariants == {createLink(i, IfNameOf(i), up) : i \in IfIndexes, up \in BOOLEAN}

NextLinks ==
  \/ \E link \in LinkVariants : addLink(link)
  \/ \E addr \in AddrInputs : addIfAddress(addr)
  \/ \E addr \in AddrInputs : deleteIfAddress(addr)
  \/ \E order \in Orders : semifuture_getAllLinks(order)
  \/ Return

SpecLinks == Init /\ [][NextLinks]_vars

----------------------------------------------------------------------------
(* Two semifuture_syncIfaceAddresses calls with the same arguments, each   *)
(* on its own thread.  A call reads the addresses, builds its requests and *)
(* hands them to the socket one by one; the socket serves one request at a *)
(* time, in any order between the two calls.                               *)

SyncCalls == {1, 2}

\* The addresses held before the calls start: eth0 is given any address of
\* its pool under any scope, lo starts without addresses.
HeldInputs == {IfAddressBuild(1, n, s) : n \in NetPool(1), s \in Scopes}

\* a call that has not read the addresses yet
SyncEntry == [pc |-> "read", reqs |-> <<>>, issued |-> <<>>, status |-> Ok]

\* no address the interface holds is outside the family and scope
OnlyOf(addrs, ifIndex, family, scope) ==
  \A a \in Range(addrs[ifIndex]) :
    a.scope = scope /\ (family = 0 \/ a.family = family)

StartSyncs(iface, family, scope, newAddrs) ==
  LET ifIndex == getIfIndex(links, iface)
  IN /\ Idle
     /\ ~sync.running
     /\ sync' = [running |-> TRUE, iface |-> iface, family |-> family,
                  scope |-> scope, newAddrs |-> newAddrs,
                  clean |-> /\ ifIndex # <<>>
                            /\ OnlyOf(ifAddrs, ifIndex[1], family, scope),
                  calls |-> [p \in SyncCalls |-> SyncEntry]]
     /\ UNCHANGED <<socketVars, engineVars>>

\* getIfIndex, getIfaceAddresses(...).get() and the two loops that build
\* the requests; the status is the one of collectAll when nothing is issued
SyncRead(p) ==
  LET ifIndex == getIfIndex(links, sync.iface)
      oldAddrs == getIfaceAddresses(ifAddrs, ifIndex[1], sync.family, sync.scope)
      reqs == SyncRequests(ifIndex[1], sync.scope, oldAddrs, sync.newAddrs)
  IN /\ sync.running
     /\ sync.calls[p].pc = "read"
     /\ sync' =
          IF ifIndex = <<>>
          THEN [sync EXCEPT !.calls[p].pc = "done",
                            !.calls[p].status = BadOptionalAccess]
          ELSE IF reqs = <<>>
          THEN [sync EXCEPT !.calls[p].pc = "done",
                            !.calls[p].status = CollectStatus(<<>>)]
          ELSE [sync EXCEPT !.calls[p].pc = "issue", !.calls[p].reqs = reqs]
     /\ UNCHANGED <<socketVars, engineVars>>

\* the socket serves the next request of the call; after the last one the
\* collected status is the outcome of the call
SyncIssue(p) ==
  LET me == sync.calls[p]
      r == SockRequest(ifAddrs, Head(me.reqs), FALSE)
      issued == Append(me.issued, [req |-> Head(me.reqs).req,
                                   addr |-> Head(me.reqs).addr,
                                   ret |-> r.ret])
      rest == Tail(me.reqs)
  IN /\ sync.running
     /\ me.pc = "issue"
     /\ ifAddrs' = r.ifAddrs
     /\ sync' = [sync EXCEPT
                   !.calls[p] =
                     [pc |-> IF rest = <<>> THEN "done" ELSE "issue",
                      reqs |-> rest, issued |-> issued,
                      status |-> IF rest = <<>> THEN CollectStatus(issued)
                                 ELSE Ok]]
     /\ UNCHANGED <<links, unicastRoutes, mplsRoutes, call, rcall, engineVars>>

BothDone == sync.running /\ \A p \in SyncCalls : sync.calls[p].pc = "done"

NextConcurrent ==
  \/ \E link \in LinkInputs : ~sync.running /\ addLink(link)
  \/ \E addr \in HeldInputs : ~sync.running /\ addIfAddress(addr)
  \/ ~sync.running /\ Return
  \/ \E n \in IfNames, f \in Families, s \in Scopes : \E b \in Batches(n) :
       StartSyncs(n, f, s, b)
  \/ \E p \in SyncCalls : SyncRead(p)
  \/ \E p \in SyncCalls : SyncIssue(p)

SpecConcurrent == Init /\ [][NextConcurrent]_vars

----------------------------------------------------------------------------
(* NetlinkMessage: one frame per request, with the promise its future is   *)
(* made from, and the socket that sends the frames and reads the kernel's  *)
(* datagrams.                                                              *)

\* enum class MessageType
MessageTypes ==
  {"GET_ALL_LINKS", "GET_ALL_ADDRS", "GET_ADDR", "ADD_ADDR", "DEL_ADDR",
   "GET_ALL_NEIGHBORS", "GET_ALL_ROUTES", "GET_ROUTE", "ADD_ROUTE", "DEL_ROUTE"}

ObjectKinds == {"route", "link", "neighbor", "ifAddress"}

\* the receive callbacks the frame of a request overrides: a GET frame the
\* one of the objects it asks for, an add or delete frame none
Overrides(type) ==
  IF type = "GET_ALL_LINKS" THEN {"link"}
  ELSE IF type \in {"GET_ALL_ADDRS", "GET_ADDR"} THEN {"ifAddress"}
  ELSE IF type = "GET_ALL_NEIGHBORS" THEN {"neighbor"}
  ELSE IF type \in {"GET_ALL_ROUTES", "GET_ROUTE"} THEN {"route"}
  ELSE {}

\* NetlinkMessage(type): nothing received, promise_ not fulfilled
NetlinkMessage(type) ==
  [messageType |-> type, delivered |-> 0, objects |-> <<>>,
   calls |-> 0, status |-> 0, response |-> 0, destroyed |-> FALSE]

\* the outcome of a callback: the frame afterwards, and whether CHECK failed
Accumulated(frame, kind) ==
  [frame |-> [frame EXCEPT !.objects = Append(@, kind)], fault |-> FALSE]
CheckFailed(frame) == [frame |-> frame, fault |-> TRUE]

\* rcvdLink that returns without a word
rcvdLink_Ignore(frame) == [frame |-> frame, fault |-> FALSE]

\* the callbacks of the base class: CHECK(false)
rcvdRoute(frame) == CheckFailed(frame)
rcvdLink(frame) == CheckFailed(frame)
rcvdNeighbor(frame) == CheckFailed(frame)
rcvdIfAddress(frame) == CheckFailed(frame)

\* virtual dispatch: the override where the frame has one, else the base
Deliver(frame, kind) ==
  LET f == [frame EXCEPT !.delivered = @ + 1]
  IN IF kind \in Overrides(f.messageType) THEN Accumulated(f, kind)
     ELSE IF kind = "route" THEN rcvdRoute(f)
     ELSE IF kind = "link" THEN rcvdLink(f)
     ELSE IF kind = "neighbor" THEN rcvdNeighbor(f)
     ELSE rcvdIfAddress(f)

\* promise_.setValue(status): a promise takes one value, a second call faults
setReturnStatus(frame, status, seq) ==
  IF frame.calls = 0
  THEN [frame |-> [frame EXCEPT !.calls = 1, !.status = status,
                                !.response = seq],
        fault |-> FALSE]
  ELSE [frame |-> [frame EXCEPT !.calls = 2], fault |-> TRUE]

\* the future of the frame: <<>> until the promise has its value
getSemiFuture(frame) == IF frame.calls = 0 THEN <<>> ELSE <<frame.status>>

\* LookupFrame that takes the oldest outstanding frame
LookupFrame_Oldest(tbl, seq) ==
  IF tbl = {} THEN <<>> ELSE <<CHOOSE s \in tbl : \A t \in tbl : s <= t>>

\* the outstanding frame with the sequence number: <<>> when there is none
LookupFrame(tbl, seq) == IF seq \in tbl THEN <<seq>> ELSE <<>>

\* RemoveFrame that leaves the completed frame in the table
RemoveFrame_Keep(tbl, seq) == tbl

\* a completed frame leaves the table of the outstanding frames
RemoveFrame(tbl, seq) == tbl \ {seq}

\* What the kernel may send: an object, NLMSG_DONE or NLMSG_ERROR with an
\* errno, under the sequence number of a request or under 0 (a notification).
Datagrams ==
  {[seq |-> q, msg |-> k, errno |-> 0] :
     q \in 0..MaxRequests, k \in ObjectKinds \cup {"done"}}
  \cup {[seq |-> q, msg |-> "error", errno |-> e] :
     q \in 0..MaxRequests, e \in {0, -EEXIST}}

\* the socket stamps the next sequence number on the frame and sends it
SendRequest(type) ==
  /\ fault = NoFault
  /\ nextSeq <= MaxRequests
  /\ frames' = Append(frames, NetlinkMessage(type))
  /\ table' = table \cup {nextSeq}
  /\ nextSeq' = nextSeq + 1
  /\ UNCHANGED <<received, notified, fault, socketVars, sync>>

\* the read loop takes one datagram
ReadLoop(dgram) ==
  LET hit == LookupFrame(table, dgram.seq)
  IN /\ fault = NoFault
     /\ received < MaxDatagrams
     /\ received' = received + 1
     /\ IF hit = <<>>
        THEN /\ notified' = notified + 1
             /\ UNCHANGED <<frames, table, fault>>
        ELSE IF dgram.msg \in ObjectKinds
        THEN LET r == Deliver(frames[hit[1]], dgram.msg)
             IN /\ frames' = [frames EXCEPT ![hit[1]] = r.frame]
                /\ fault' = IF r.fault
                            THEN [seq |-> hit[1], kind |-> dgram.msg]
                            ELSE NoFault
                /\ UNCHANGED <<table, notified>>
        ELSE LET r == setReturnStatus(frames[hit[1]], dgram.errno, dgram.seq)
             IN /\ table' = RemoveFrame(table, hit[1])
                /\ frames' = [frames EXCEPT
                                ![hit[1]] = [r.frame EXCEPT
                                               !.destroyed = hit[1] \notin table']]
                /\ fault' = IF r.fault
                            THEN [seq |-> hit[1], kind |-> "setReturnStatus"]
                            ELSE NoFault
                /\ UNCHANGED notified
     /\ UNCHANGED <<nextSeq, socketVars, sync>>

NextMessages ==
  \/ \E type \in MessageTypes : SendRequest(type)
  \/ \E dgram \in Datagrams : ReadLoop(dgram)

SpecMessages == Init /\ [][NextMessages]_vars

\* utils::createIfAddress: the scope follows the class of the address
createIfAddress(ifIndex, net) ==
  IfAddressBuild(ifIndex, net,
                 IF isLoopback(net[1]) THEN RT_SCOPE_HOST
                 ELSE IF isLinkLocal(net[1]) THEN RT_SCOPE_LINK
                 ELSE RT_SCOPE_UNIVERSE)

\* The five calls that change the socket, made with the addresses
\* createIfAddress builds, an address without a prefix, and the routes of
\* one protocol to one destination and one label.
CreatedAddrs ==
  UNION {{createIfAddress(i, n) : n \in NetPool(i)} : i \in IfIndexes}
  \cup {IfAddressBuild(i, NoPrefix, RT_SCOPE_UNIVERSE) : i \in IfIndexes}

FewRoutes ==
  {r \in RouteInputs :
     /\ r.protocolId = 99
     /\ r.family = AF_INET => r.destination = <<<<10, 0, 0, 0>>, 8>>
     /\ r.family = AF_MPLS => r.mplsLabel = <<100>>}

NextDouble ==
  \/ \E link \in LinkInputs : addLink(link)
  \/ \E addr \in CreatedAddrs : addIfAddress(addr)
  \/ \E addr \in CreatedAddrs : deleteIfAddress(addr)
  \/ \E route \in FewRoutes : addRoute(route)
  \/ \E route \in FewRoutes : deleteRoute(route)
  \/ Return

SpecDouble == Init /\ [][NextDouble]_vars

----------------------------------------------------------------------------
(* Vocabulary of the properties.                                           *)

IsBatchOp(c) ==
  /\ c.op \in {"addIfaceAddresses", "removeIfaceAddresses", "syncIfaceAddresses"}
  /\ c.status # BadOptionalAccess

\* the ifIndex of the link named n (the names of the links are distinct)
IndexOfName(lnks, n) == CHOOSE i \in DOMAIN lnks : lnks[i].ifName = n

\* the addresses (thrift prefixes) the interface holds for a family and scope
AddressSet(addrs, i, family, scope) ==
  {toIpPrefix(a.prefix) :
     a \in {b \in Range(addrs[i]) :
              /\ b.scope = scope
              /\ (family = 0 \/ b.family = family)}}

\* every prefix the interface holds, whatever its scope
AllPrefixes(addrs, i) == {toIpPrefix(a.prefix) : a \in Range(addrs[i])}

NoDuplicates(s) == \A i, j \in 1..Len(s) : s[i] = s[j] => i = j

IssuedPrefixes(c, kind) ==
  {toIpPrefix(c.issued[i].addr.prefix) :
     i \in {k \in 1..Len(c.issued) : c.issued[k].req = kind}}

IssuedCount(c, kind) ==
  Cardinality({k \in 1..Len(c.issued) : c.issued[k].req = kind})

IsUnrecoverable(ret) ==
  Abs(ret) # 0 /\ Abs(ret) # EEXIST /\ Abs(ret) # EADDRNOTAVAIL

----------------------------------------------------------------------------
\* C1 as stated: once syncIfaceAddresses(iface, family, scope, D) on an
\* existing interface has completed, the addresses of the interface for that
\* family and scope are exactly D, whatever D and the interface hold.
C1_AsStated ==
  (call.op = "syncIfaceAddresses" /\ call.status = Ok) =>
    AddressSet(ifAddrs, IndexOfName(links, call.ifName), call.family,
               call.scope) = Range(call.addrs)

\* C1: when every address of D has the family asked for (any family when
\* family is 0) and the interface holds no address of D under another scope,
\* then once syncIfaceAddresses(iface, family, scope, D) has completed the
\* addresses of the interface for that family and scope are exactly D.
C1_SyncLeavesDesiredSet ==
  [][(call'.op = "syncIfaceAddresses" /\ call'.status = Ok) =>
       LET i == IndexOfName(links, call'.ifName)
           D == Range(call'.addrs)
       IN (/\ \A A \in D : call'.family = 0
                              \/ FamilyOf(A.prefixAddress.addr) = call'.family
           /\ \A a \in Range(ifAddrs[i]) :
                toIpPrefix(a.prefix) \in D => a.scope = call'.scope)
          => AddressSet(ifAddrs', i, call'.family, call'.scope) = D]_vars

C1_Witness ==
  /\ call.op = "syncIfaceAddresses"
  /\ call.status = Ok
  /\ call.family # 0
  /\ IssuedCount(call, "add") = 1
  /\ IssuedCount(call, "del") = 1
  /\ \A k \in 1..Len(call.issued) : call.issued[k].ret = 0
  /\ AddressSet(ifAddrs, IndexOfName(links, call.ifName), call.family,
                call.scope) = Range(call.addrs)

\* C2: a sync with current set C and desired set D issues adds exactly for
\* D \ C and deletes exactly for C \ D, one request per address (D given
\* without repetition), all of them for the interface being synced.
C2_SyncIssuesOnlyTheDifference ==
  [][(call'.op = "syncIfaceAddresses" /\ call'.status # BadOptionalAccess) =>
       LET i == IndexOfName(links, call'.ifName)
           C == AddressSet(ifAddrs, i, call'.family, call'.scope)
           D == Range(call'.addrs)
       IN /\ IssuedPrefixes(call', "add") = D \ C
          /\ IssuedPrefixes(call', "del") = C \ D
          /\ IssuedCount(call', "del") = Cardinality(C \ D)
          /\ NoDuplicates(call'.addrs) =>
               IssuedCount(call', "add") = Cardinality(D \ C)
          /\ \A k \in 1..Len(call'.issued) :
               /\ call'.issued[k].req \in {"add", "del"}
               /\ call'.issued[k].addr.ifIndex = i]_vars

C2_Witness ==
  /\ call.op = "syncIfaceAddresses"
  /\ call.status = Ok
  /\ IssuedCount(call, "add") = 1
  /\ IssuedCount(call, "del") = 1
  /\ call.issued[1].req = "add"
  /\ call.issued[2].req = "del"
  /\ call.scope # RT_SCOPE_UNIVERSE

\* C3: adding addresses the interface already holds, or removing addresses
\* it does not hold, succeeds and leaves the socket's addresses as they
\* were; a request answered EEXIST or EADDRNOTAVAIL never fails the batch.
C3_IdempotentAddRemove ==
  [][(call'.op \in {"addIfaceAddresses", "removeIfaceAddresses"}
        /\ call'.status # BadOptionalAccess) =>
       LET i == IndexOfName(links, call'.ifName)
           held == AllPrefixes(ifAddrs, i)
           D == Range(call'.addrs)
       IN /\ (call'.op = "addIfaceAddresses" /\ D \subseteq held) =>
               /\ call'.status = Ok
               /\ ifAddrs' = ifAddrs
               /\ \A k \in 1..Len(call'.issued) : call'.issued[k].ret = -EEXIST
          /\ (call'.op = "removeIfaceAddresses" /\ D \cap held = {}) =>
               /\ call'.status = Ok
               /\ ifAddrs' = ifAddrs
               /\ \A k \in 1..Len(call'.issued) :
                    call'.issued[k].ret = -EADDRNOTAVAIL
          /\ (\A k \in 1..Len(call'.issued) :
                ~IsUnrecoverable(call'.issued[k].ret)) => call'.status = Ok]_vars

C3_Witness ==
  /\ call.op = "addIfaceAddresses"
  /\ call.status = Ok
  /\ Len(call.issued) = 2
  /\ \A k \in 1..2 : call.issued[k].ret = -EEXIST
  /\ call.issued[1].addr # call.issued[2].addr

----------------------------------------------------------------------------
KeyOf(route) ==
  IF route.family = AF_MPLS
  THEN <<"mpls", route.protocolId, route.mplsLabel>>
  ELSE <<"unicast", route.protocolId, route.destination>>

ProtocolFilter(p) ==
  RouteBuild(p, 0, NoDest, NoLabel, [type |-> 0, nextHops |-> {}])

RoutesOfProtocol(p) == FakeGetRoutes(mplsRoutes, unicastRoutes, ProtocolFilter(p))

\* C4: the store holds at most one route per (protocolId, destination) and
\* per (protocolId, label), each under its own key; after addRoute,
\* getRoutes for the route's protocol returns exactly one route with its key,
\* and that route has the next hops just added.
C4_OneRoutePerKey ==
  /\ \A p \in DOMAIN unicastRoutes : \A d \in DOMAIN unicastRoutes[p] :
       /\ unicastRoutes[p][d].protocolId = p
       /\ unicastRoutes[p][d].destination = d
       /\ unicastRoutes[p][d].family # AF_MPLS
  /\ \A p \in DOMAIN mplsRoutes : \A l \in DOMAIN mplsRoutes[p] :
       /\ mplsRoutes[p][l].protocolId = p
       /\ mplsRoutes[p][l].mplsLabel = <<l>>
       /\ mplsRoutes[p][l].family = AF_MPLS
  /\ \A p \in ProtocolIds :
       LET res == RoutesOfProtocol(p)
       IN \A i, j \in 1..Len(res) : KeyOf(res[i]) = KeyOf(res[j]) => i = j
  /\ rcall.op = "addRoute" =>
       LET res == RoutesOfProtocol(rcall.route.protocolId)
           hits == {i \in 1..Len(res) : KeyOf(res[i]) = KeyOf(rcall.route)}
       IN /\ Cardinality(hits) = 1
          /\ \A i \in hits : res[i].nextHops = rcall.route.nextHops

C4_Witness ==
  /\ rcall.op = "addRoute"
  /\ rcall.replaced # <<>>
  /\ rcall.replaced[1].nextHops # rcall.route.nextHops
  /\ Len(RoutesOfProtocol(rcall.route.protocolId)) >= 2

\* C5: adding or deleting an MPLS route leaves the unicast table as it was,
\* and adding or deleting a unicast route leaves the MPLS table as it was.
C5_DisjointKeyspaces ==
  [][(rcall'.op \in {"addRoute", "deleteRoute"}) =>
       IF rcall'.route.family = AF_MPLS
       THEN unicastRoutes' = unicastRoutes
       ELSE mplsRoutes' = mplsRoutes]_vars

C5_Witness ==
  /\ rcall.op = "addRoute"
  /\ rcall.route.family = AF_MPLS
  /\ rcall.route.protocolId \in DOMAIN unicastRoutes
  /\ unicastRoutes[rcall.route.protocolId] # EmptyMap

\* C6: addIfAddress and deleteIfAddress for an ifIndex without a link return
\* -ENXIO and change neither the links nor any address list.
C6_UnknownIfIndexRejected ==
  [][(call'.op \in {"addIfAddress", "deleteIfAddress"}
        /\ call'.arg.ifIndex \notin DOMAIN links) =>
       /\ call'.ret = -ENXIO
       /\ links' = links
       /\ ifAddrs' = ifAddrs]_vars

C6_Witness ==
  /\ call.op = "addIfAddress"
  /\ call.arg.prefix # NoPrefix
  /\ call.arg.ifIndex \notin DOMAIN links
  /\ \E i \in DOMAIN links : ifAddrs[i] # <<>>

\* C7: getAllLinks returns one entry per link of the socket, and the networks
\* of the entry of ifIndex i are the prefixes of the addresses on ifIndex i,
\* none when the link has no address.
C7_GetAllLinks ==
  call.op = "getAllLinks" =>
    /\ call.status = Ok
    /\ Len(call.linksResult) = Cardinality(DOMAIN links)
    /\ {call.linksResult[k].ifIndex : k \in 1..Len(call.linksResult)} = DOMAIN links
    /\ \A k \in 1..Len(call.linksResult) :
         LET e == call.linksResult[k]
             i == e.ifIndex
         IN /\ e.ifName = links[i].ifName
            /\ e.isUp = links[i].isUp
            /\ Range(e.networks) = AllPrefixes(ifAddrs, i)
            /\ Len(e.networks) = Len(ifAddrs[i])

C7_Witness ==
  /\ call.op = "getAllLinks"
  /\ Len(call.linksResult) = 2
  /\ \E k \in 1..2 : Len(call.linksResult[k].networks) = 2
  /\ \E k \in 1..2 : call.linksResult[k].networks = <<>>

\* C8: getIfaceAddresses returns exactly the prefixes of the addresses of the
\* named interface that have the given scope and, unless family is 0, the
\* given family; whatever the scope asked for, an address of another scope
\* is left out.
C8_GetIfaceAddressesFilter ==
  (call.op = "getIfaceAddresses" /\ call.status = Ok) =>
    LET i == IndexOfName(links, call.ifName)
    IN /\ Range(call.result) = AddressSet(ifAddrs, i, call.family, call.scope)
       /\ NoDuplicates(call.result)
       /\ \A a \in Range(ifAddrs[i]) :
            a.scope # call.scope => toIpPrefix(a.prefix) \notin Range(call.result)

C8_Witness ==
  /\ call.op = "getIfaceAddresses"
  /\ call.status = Ok
  /\ call.scope = RT_SCOPE_UNIVERSE
  /\ call.family = 0
  /\ Len(call.result) = 1
  /\ Len(ifAddrs[IndexOfName(links, call.ifName)]) = 2

\* host for the loopback address, link for the link-local one, universe
\* for the others
ClassScope(A) ==
  IF A.prefixAddress.addr = V4Loopback THEN RT_SCOPE_HOST
  ELSE IF A.prefixAddress.addr = V6LinkLocal THEN RT_SCOPE_LINK
  ELSE RT_SCOPE_UNIVERSE

\* C9 as stated: after addIfaceAddresses has added the single address A to
\* an interface holding no address of A's scope, getIfaceAddresses with A's
\* family and A's scope returns exactly [A].
C9_AsStated ==
  [][(call'.op = "addIfaceAddresses" /\ call'.status = Ok
        /\ Len(call'.addrs) = 1) =>
       LET i == IndexOfName(links, call'.ifName)
           A == call'.addrs[1]
       IN (\A a \in Range(ifAddrs[i]) : a.scope # ClassScope(A)) =>
            getIfaceAddresses(ifAddrs', i, FamilyOf(A.prefixAddress.addr),
                              ClassScope(A)) = <<A>>]_vars

\* C9: after addIfaceAddresses has added the single address A to an
\* interface holding neither an address of A's scope nor A's prefix under
\* another scope, getIfaceAddresses with A's family and A's scope returns
\* exactly [A].
C9_AddThenGet ==
  [][(call'.op = "addIfaceAddresses" /\ call'.status = Ok
        /\ Len(call'.addrs) = 1) =>
       LET i == IndexOfName(links, call'.ifName)
           A == call'.addrs[1]
       IN (/\ \A a \in Range(ifAddrs[i]) : a.scope # ClassScope(A)
           /\ A \notin AllPrefixes(ifAddrs, i)) =>
            getIfaceAddresses(ifAddrs', i, FamilyOf(A.prefixAddress.addr),
                              ClassScope(A)) = <<A>>]_vars

C9_Witness ==
  /\ call.op = "addIfaceAddresses"
  /\ call.status = Ok
  /\ Len(call.addrs) = 1
  /\ call.issued[1].ret = 0
  /\ ClassScope(call.addrs[1]) = RT_SCOPE_LINK
  /\ LET i == IndexOfName(links, call.ifName)
     IN /\ Len(ifAddrs[i]) = 2
        /\ getIfaceAddresses(ifAddrs, i, AF_INET6, RT_SCOPE_LINK) = call.addrs

\* C10: when a request of a batch is answered with a status other than 0,
\* EEXIST and EADDRNOTAVAIL, the call fails; every request of the batch has
\* been issued all the same, and what the requests answered 0 changed stays.
C10_BatchFailsWithoutRollback ==
  [][IsBatchOp(call') =>
       LET i == IndexOfName(links, call'.ifName)
           is == call'.issued
           Done(kind) ==
             {toIpPrefix(is[k].addr.prefix) :
                k \in {n \in 1..Len(is) : is[n].req = kind /\ is[n].ret = 0}}
           C == AddressSet(ifAddrs, i, call'.family, call'.scope)
           expected ==
             IF call'.op = "syncIfaceAddresses"
             THEN Cardinality({k \in 1..Len(call'.addrs) : call'.addrs[k] \notin C})
                  + Cardinality(C \ Range(call'.addrs))
             ELSE Len(call'.addrs)
       IN /\ (\E k \in 1..Len(is) : IsUnrecoverable(is[k].ret)) =>
               call'.status.kind = "NlException"
          /\ Len(is) = expected
          /\ AllPrefixes(ifAddrs', i) =
               (AllPrefixes(ifAddrs, i) \cup Done("add")) \ Done("del")
          /\ \A j \in DOMAIN ifAddrs \ {i} : ifAddrs'[j] = ifAddrs[j]]_vars

C10_Witness ==
  /\ IsBatchOp(call)
  /\ call.status.kind = "NlException"
  /\ \E k1, k2 \in 1..Len(call.issued) :
       /\ k1 < k2
       /\ IsUnrecoverable(call.issued[k1].ret)
       /\ call.issued[k2].ret = 0

----------------------------------------------------------------------------
LinkNames(lnks) == {lnks[i].ifName : i \in DOMAIN lnks}

\* C11: an add, remove, get or sync for an interface name no link has ends
\* with a not-found outcome of its own, which is not the kernel-error
\* failure, and issues no request: links and addresses stay as they were.
C11_UnknownNameNotFound ==
  [][(call'.op \in {"addIfaceAddresses", "removeIfaceAddresses",
                    "getIfaceAddresses", "syncIfaceAddresses"}
        /\ call'.ifName \notin LinkNames(links)) =>
       /\ call'.status = BadOptionalAccess
       /\ call'.status.kind \notin {"ok", "NlException"}
       /\ call'.issued = <<>>
       /\ call'.result = <<>>
       /\ ifAddrs' = ifAddrs
       /\ links' = links]_vars

C11_Witness ==
  /\ call.op = "syncIfaceAddresses"
  /\ call.ifName \notin LinkNames(links)
  /\ call.addrs # <<>>
  /\ call.status = BadOptionalAccess
  /\ \E i \in DOMAIN links : ifAddrs[i] # <<>>

StoredRoutes(m) == UNION {{m[p][k] : k \in DOMAIN m[p]} : p \in DOMAIN m}

\* C16: getRoutes returns exactly the stored routes, unicast and MPLS, that
\* agree with every non-zero field of the filter among protocolId, family and
\* type (a zero field admits every route), and leaves the tables as they were.
C16_GetRoutesFilter ==
  [][rcall'.op = "getRoutes" =>
       LET f == rcall'.route
           matching ==
             {r \in StoredRoutes(unicastRoutes) \cup StoredRoutes(mplsRoutes) :
                /\ f.protocolId = 0 \/ r.protocolId = f.protocolId
                /\ f.family = 0 \/ r.family = f.family
                /\ f.type = 0 \/ r.type = f.type}
       IN /\ Range(rcall'.result) = matching
          /\ Len(rcall'.result) = Cardinality(matching)
          /\ unicastRoutes' = unicastRoutes
          /\ mplsRoutes' = mplsRoutes]_vars

C16_Witness ==
  /\ rcall.op = "getRoutes"
  /\ rcall.route.type # 0
  /\ rcall.route.family = 0
  /\ rcall.route.protocolId = 0
  /\ \E i, j \in 1..Len(rcall.result) :
       rcall.result[i].family = AF_MPLS /\ rcall.result[j].family = AF_INET
  /\ \E r \in StoredRoutes(unicastRoutes) : r.type # rcall.route.type

\* C17: addLink for an ifIndex that has a link returns -EEXIST and changes
\* neither the stored link nor any address list; for a new ifIndex it stores
\* the link, gives the ifIndex an empty address list and returns 0.
C17_AddLinkOnce ==
  [][call'.op = "addLink" =>
       LET l == call'.link
           i == l.ifIndex
       IN IF i \in DOMAIN links
          THEN /\ call'.ret = -EEXIST
               /\ links' = links
               /\ ifAddrs' = ifAddrs
          ELSE /\ call'.ret = 0
               /\ DOMAIN links' = DOMAIN links \cup {i}
               /\ links'[i] = l
               /\ \A j \in DOMAIN links : links'[j] = links[j]
               /\ i \in DOMAIN ifAddrs'
               /\ ifAddrs'[i] = <<>>
               /\ \A j \in DOMAIN ifAddrs \ {i} : ifAddrs'[j] = ifAddrs[j]]_vars

C17_Witness ==
  /\ call.op = "addLink"
  /\ call.ret = -EEXIST
  /\ call.link # links[call.link.ifIndex]
  /\ ifAddrs[call.link.ifIndex] # <<>>

\* C18: whatever links and addresses were added and deleted, the ifIndexes
\* with an address list are the ifIndexes with a link, every address
\* getAllIfAddresses returns names the ifIndex of a link getAllLinks returns,
\* and the handler's getAllLinks never misses a link.
C18_AddressListPerLink ==
  /\ DOMAIN ifAddrs = DOMAIN links
  /\ \A a \in Range(FakeGetAllIfAddresses(ifAddrs)) :
       \E l \in Range(FakeGetAllLinks(links)) : l.ifIndex = a.ifIndex
  /\ call.op = "getAllLinks" => call.status = Ok

C18_Witness ==
  /\ call.op = "getAllLinks"
  /\ call.status = Ok
  /\ DOMAIN links = IfIndexes
  /\ \A i \in IfIndexes : Len(ifAddrs[i]) = 2

\* the prefixes of the addresses of a list are distinct
UniquePrefixes(list) ==
  \A i, j \in 1..Len(list) : list[i].prefix = list[j].prefix => i = j

\* C19: no address list holds two addresses with the same prefix, whatever
\* their scopes, and a deleteIfAddress that succeeds removes exactly one
\* address and leaves none with the prefix it was given.
C19_OneAddressPerPrefix ==
  [][/\ \A i \in DOMAIN ifAddrs' : UniquePrefixes(ifAddrs'[i])
     /\ (call'.op = "deleteIfAddress" /\ call'.ret = 0) =>
          LET i == call'.arg.ifIndex
          IN /\ Len(ifAddrs'[i]) = Len(ifAddrs[i]) - 1
             /\ ~HasPrefix(ifAddrs'[i], call'.arg.prefix)
             /\ Range(ifAddrs'[i]) \subseteq Range(ifAddrs[i])
             /\ \A j \in DOMAIN ifAddrs \ {i} : ifAddrs'[j] = ifAddrs[j]]_vars

C19_Witness ==
  /\ call.op = "deleteIfAddress"
  /\ call.ret = 0
  /\ Len(ifAddrs[call.arg.ifIndex]) = 1
  /\ ifAddrs[call.arg.ifIndex][1].scope # call.arg.scope

\* what getAllLinks, getAllIfAddresses and getRoutes (no filter) show
ObservedLinks(lnks) == Range(FakeGetAllLinks(lnks))
ObservedAddrs(addrs) == FakeGetAllIfAddresses(addrs)
ObservedRoutes(mpls, unicast) ==
  Range(FakeGetRoutes(mpls, unicast, NoRouteCall.route))

\* the change a mutating call asks for, read off what the getters show
\* before and after it
Applied(c, rc) ==
  LET oldR == ObservedRoutes(mplsRoutes, unicastRoutes)
      newR == ObservedRoutes(mplsRoutes', unicastRoutes')
      oldA == ObservedAddrs(ifAddrs)
      newA == ObservedAddrs(ifAddrs')
  IN IF c.op = "addLink"
     THEN /\ \A l \in ObservedLinks(links) : l.ifIndex # c.link.ifIndex
          /\ ObservedLinks(links') = ObservedLinks(links) \cup {c.link}
     ELSE IF c.op = "addIfAddress"
     THEN /\ c.arg \notin Range(oldA)
          /\ Range(newA) = Range(oldA) \cup {c.arg}
          /\ Len(newA) = Len(oldA) + 1
     ELSE IF c.op = "deleteIfAddress"
     THEN /\ Len(newA) = Len(oldA) - 1
          /\ Range(newA) \subseteq Range(oldA)
          /\ \A a \in Range(newA) :
               ~(a.ifIndex = c.arg.ifIndex /\ a.prefix = c.arg.prefix)
     ELSE IF rc.op = "addRoute"
     THEN newR = {r \in oldR : KeyOf(r) # KeyOf(rc.route)} \cup {rc.route}
     ELSE /\ \E r \in oldR : KeyOf(r) = KeyOf(rc.route)
          /\ newR = {r \in oldR : KeyOf(r) # KeyOf(rc.route)}

\* C12: addRoute, deleteRoute, addIfAddress, deleteIfAddress and addLink
\* return 0 exactly when they applied the change and an errno otherwise, and
\* a call that returns an errno leaves what getAllLinks, getAllIfAddresses
\* and getRoutes show unchanged.
C12_ZeroIffApplied ==
  [][(call'.op \in {"addLink", "addIfAddress", "deleteIfAddress"}
        \/ rcall'.op \in {"addRoute", "deleteRoute"}) =>
       LET ret == IF call'.op # "none" THEN call'.ret ELSE rcall'.ret
       IN /\ (ret = 0) <=> Applied(call', rcall')
          /\ ret # 0 =>
               /\ Abs(ret) \in {ESRCH, ENXIO, EEXIST, EADDRNOTAVAIL}
               /\ ObservedLinks(links') = ObservedLinks(links)
               /\ ObservedAddrs(ifAddrs') = ObservedAddrs(ifAddrs)
               /\ ObservedRoutes(mplsRoutes', unicastRoutes')
                    = ObservedRoutes(mplsRoutes, unicastRoutes)]_vars

C12_Witness ==
  /\ rcall.op = "deleteRoute"
  /\ rcall.ret # 0
  /\ rcall.route.family = AF_MPLS
  /\ ObservedRoutes(mplsRoutes, unicastRoutes) # {}
  /\ ObservedAddrs(ifAddrs) # <<>>

\* the sync calls have both returned, for an interface that has a link and
\* that held only addresses of the family and scope when they started
SyncsDoneClean == BothDone /\ sync.clean

SyncsLeftDesired ==
  /\ \A p \in SyncCalls : sync.calls[p].status = Ok
  /\ AddressSet(ifAddrs, IndexOfName(links, sync.iface), sync.family, sync.scope)
       = Range(sync.newAddrs)

\* C20 as stated: two concurrent sync calls with the same arguments both
\* succeed and leave the interface with exactly D for the family and scope,
\* when the interface held only addresses of that family and scope.
C20_AsStated == SyncsDoneClean => SyncsLeftDesired

\* C20: as above, for a D whose addresses all have the requested family
\* (any D when the family is 0).
C20_ConcurrentSyncs ==
  (/\ SyncsDoneClean
   /\ \A a \in Range(sync.newAddrs) :
        sync.family = 0 \/ FamilyOf(a.prefixAddress.addr) = sync.family)
  => SyncsLeftDesired

C20_Witness ==
  /\ SyncsDoneClean
  /\ SyncsLeftDesired
  /\ \E k \in 1..Len(sync.calls[1].issued) :
       sync.calls[1].issued[k].ret = -EADDRNOTAVAIL
  /\ \E k \in 1..Len(sync.calls[2].issued) :
       sync.calls[2].issued[k].ret = -EEXIST

Sent == 1..Len(frames)

\* C13: the promise of a frame takes its value once: setReturnStatus is
\* never invoked on a frame a second time, and a frame is destroyed only
\* after setReturnStatus has been invoked on it.
C13_ResolvedExactlyOnce ==
  /\ \A s \in Sent : frames[s].calls <= 1
  /\ \A s \in Sent : frames[s].destroyed => frames[s].calls = 1
  /\ fault.kind # "setReturnStatus"

C13_Witness ==
  /\ Len(frames) = MaxRequests
  /\ \A s \in Sent : frames[s].destroyed /\ frames[s].calls = 1
  /\ frames[1].objects # <<>>
  /\ notified >= 1

\* C14: whatever the order of the requests and of the datagrams, the future
\* of a request holds the status of a datagram that carried the request's
\* own sequence number.
C14_OwnSequenceNumber ==
  \A s \in Sent : getSemiFuture(frames[s]) # <<>> => frames[s].response = s

C14_Witness ==
  /\ Len(frames) >= 2
  /\ getSemiFuture(frames[2]) = <<-EEXIST>>
  /\ getSemiFuture(frames[1]) = <<>>
  /\ frames[1].objects # <<>>
  /\ 1 \in table

\* C15: an object handed to a frame that does not override the callback of
\* its kind makes the frame fault; a frame keeps the objects of the kinds it
\* overrides and no object handed to it is left without trace.
C15_UndeclaredObjectFaults ==
  \A s \in Sent :
    /\ Range(frames[s].objects) \subseteq Overrides(frames[s].messageType)
    /\ frames[s].delivered
         = Len(frames[s].objects)
           + (IF fault.seq = s /\ fault.kind \in ObjectKinds THEN 1 ELSE 0)
    /\ (fault.seq = s /\ fault.kind \in ObjectKinds)
         => fault.kind \notin Overrides(frames[s].messageType)

C15_Witness ==
  /\ fault.kind \in ObjectKinds
  /\ frames[fault.seq].objects # <<>>
  /\ frames[fault.seq].calls = 0
  /\ ~frames[fault.seq].destroyed

====
